---- MODULE Spec2Model ----
(***************************************************************************)
(* Temporal graph with multi-labelled undirected edges (src/src/lib.rs)    *)
(* and the label-minimisation engine (src/src/minimization.rs).            *)
(*                                                                         *)
(* HashMap / HashSet iteration order is arbitrary: every scan whose result *)
(* depends on that order is modelled as the set of results some order can  *)
(* produce, and the actions choose among them.                             *)
(* The verbose flag only prints and is left out.                           *)
(***************************************************************************)
EXTENDS Integers, Sequences, FiniteSets, TLC

\* ------------------------------------------------------------------ bounds
NumVertices == 3
MaxTime == 4
MaxLabels == 5
MaxCap == 2
MaxRuns == 2
MaxOpLabels == 3
MaxStateLabels == 2

MaxUnlimitedLabels == 4

\* MinimizationConfig::default().max_iterations
DefaultMaxIterations == 10000

VertexId == 0..(NumVertices - 1)
TimeStep == 1..MaxTime

\* Option<T>
None == << >>
Some(x) == << x >>

Min(S) == CHOOSE x \in S : \A y \in S : x <= y
Max(S) == CHOOSE x \in S : \A y \in S : x >= y

\* ------------------------------------------------------------ TemporalGraph
\* Mutant: the pair is kept in the order given.
normalize_pair_as_given(a, b) == <<a, b>>

normalize_pair(a, b) == IF a <= b THEN <<a, b>> ELSE <<b, a>>

NewGraph == [vertices |-> {}, edges |-> [k \in {} |-> {}]]

add_vertex(g, id) ==
    [graph |-> [g EXCEPT !.vertices = @ \cup {id}], ret |-> id \notin g.vertices]

\* Mutant: the endpoints are not added to the vertex set.
add_edge_no_vertices(g, u, v, time) ==
    LET k == normalize_pair(u, v)
    IN  [g EXCEPT !.edges =
            [x \in DOMAIN g.edges \cup {k} |->
                IF x = k
                THEN (IF k \in DOMAIN g.edges THEN g.edges[k] ELSE {}) \cup {time}
                ELSE g.edges[x]]]

\* Mutant: the edge is stored under the pair as given.
add_edge_unnormalized(g, u, v, time) ==
    LET g1 == add_vertex(add_vertex(g, u).graph, v).graph
        k == <<u, v>>
    IN  [g1 EXCEPT !.edges =
            [x \in DOMAIN g1.edges \cup {k} |->
                IF x = k
                THEN (IF k \in DOMAIN g1.edges THEN g1.edges[k] ELSE {}) \cup {time}
                ELSE g1.edges[x]]]

add_edge(g, u, v, time) ==
    LET g1 == add_vertex(add_vertex(g, u).graph, v).graph
        k == normalize_pair(u, v)
    IN  [g1 EXCEPT !.edges =
            [x \in DOMAIN g1.edges \cup {k} |->
                IF x = k
                THEN (IF k \in DOMAIN g1.edges THEN g1.edges[k] ELSE {}) \cup {time}
                ELSE g1.edges[x]]]

has_edge_at_time(g, u, v, time) ==
    LET k == normalize_pair(u, v)
    IN  IF k \in DOMAIN g.edges THEN time \in g.edges[k] ELSE FALSE

RECURSIVE sort_unstable(_)
sort_unstable(S) ==
    IF S = {} THEN << >> ELSE LET m == Min(S) IN <<m>> \o sort_unstable(S \ {m})

edge_times(g, u, v) ==
    LET k == normalize_pair(u, v)
    IN  IF k \in DOMAIN g.edges THEN Some(sort_unstable(g.edges[k])) ELSE None

vertex_count(g) == Cardinality(g.vertices)

edge_count(g) == Cardinality(DOMAIN g.edges)

\* Mutant: an edge that loses its last timestamp is kept, empty.
remove_edge_timestamp_no_cleanup(g, u, v, time) ==
    LET k == normalize_pair(u, v)
    IN  IF k \in DOMAIN g.edges
        THEN [graph |-> [g EXCEPT !.edges[k] = @ \ {time}], ret |-> time \in g.edges[k]]
        ELSE [graph |-> g, ret |-> FALSE]

\* Mutant: the edge is removed as soon as one of its timestamps is.
remove_edge_timestamp_cleanup_always(g, u, v, time) ==
    LET k == normalize_pair(u, v)
    IN  IF k \in DOMAIN g.edges
        THEN LET removed == time \in g.edges[k]
             IN  [graph |->
                      IF removed
                      THEN [g EXCEPT !.edges = [x \in DOMAIN g.edges \ {k} |-> g.edges[x]]]
                      ELSE g,
                  ret |-> removed]
        ELSE [graph |-> g, ret |-> FALSE]

\* Mutant: the return value tells whether the edge exists.
remove_edge_timestamp_ret_exists(g, u, v, time) ==
    LET k == normalize_pair(u, v)
    IN  IF k \in DOMAIN g.edges
        THEN LET removed == time \in g.edges[k]
                 rest == g.edges[k] \ {time}
             IN  [graph |->
                      IF removed /\ rest = {}
                      THEN [g EXCEPT !.edges = [x \in DOMAIN g.edges \ {k} |-> g.edges[x]]]
                      ELSE [g EXCEPT !.edges[k] = rest],
                  ret |-> TRUE]
        ELSE [graph |-> g, ret |-> FALSE]

\* Mutant: the return value tells whether the edge lost its last timestamp.
remove_edge_timestamp_ret_emptied(g, u, v, time) ==
    LET k == normalize_pair(u, v)
    IN  IF k \in DOMAIN g.edges
        THEN LET removed == time \in g.edges[k]
                 rest == g.edges[k] \ {time}
             IN  [graph |->
                      IF removed /\ rest = {}
                      THEN [g EXCEPT !.edges = [x \in DOMAIN g.edges \ {k} |-> g.edges[x]]]
                      ELSE [g EXCEPT !.edges[k] = rest],
                  ret |-> removed /\ rest = {}]
        ELSE [graph |-> g, ret |-> FALSE]

\* Mutant: an edge that loses its last timestamp takes its endpoints with it.
remove_edge_timestamp_drops_vertices(g, u, v, time) ==
    LET k == normalize_pair(u, v)
    IN  IF k \in DOMAIN g.edges
        THEN LET removed == time \in g.edges[k]
                 rest == g.edges[k] \ {time}
             IN  [graph |->
                      IF removed /\ rest = {}
                      THEN [vertices |-> g.vertices \ {u, v},
                            edges |-> [x \in DOMAIN g.edges \ {k} |-> g.edges[x]]]
                      ELSE [g EXCEPT !.edges[k] = rest],
                  ret |-> removed]
        ELSE [graph |-> g, ret |-> FALSE]

remove_edge_timestamp(g, u, v, time) ==
    LET k == normalize_pair(u, v)
    IN  IF k \in DOMAIN g.edges
        THEN LET removed == time \in g.edges[k]
                 rest == g.edges[k] \ {time}
             IN  [graph |->
                      IF removed /\ rest = {}
                      THEN [g EXCEPT !.edges = [x \in DOMAIN g.edges \ {k} |-> g.edges[x]]]
                      ELSE [g EXCEPT !.edges[k] = rest],
                  ret |-> removed]
        ELSE [graph |-> g, ret |-> FALSE]

\* Mutant: only the smallest timestamp of the edge is removed.
remove_edge_one_label(g, u, v) ==
    LET k == normalize_pair(u, v)
    IN  IF k \in DOMAIN g.edges
        THEN [graph |-> remove_edge_timestamp(g, u, v, Min(g.edges[k])).graph, ret |-> TRUE]
        ELSE [graph |-> g, ret |-> FALSE]

remove_edge(g, u, v) ==
    LET k == normalize_pair(u, v)
    IN  [graph |-> [g EXCEPT !.edges = [x \in DOMAIN g.edges \ {k} |-> g.edges[x]]],
         ret |-> k \in DOMAIN g.edges]

\* GraphState: the edges sorted by key, each with its timestamps sorted.
KeyLeq(a, b) == a[1] < b[1] \/ (a[1] = b[1] /\ a[2] <= b[2])

RECURSIVE sort_by_key(_, _)
sort_by_key(g, K) ==
    IF K = {} THEN << >>
    ELSE LET m == CHOOSE x \in K : \A y \in K : KeyLeq(x, y)
         IN  << <<m, sort_unstable(g.edges[m])>> >> \o sort_by_key(g, K \ {m})

to_state(g) == sort_by_key(g, DOMAIN g.edges)

has_seen_state(g, seen) == to_state(g) \in seen

\* ------------------------------------------------------ edge-query kernels
\* Mutant: the key is built in the wrong order.
get_edge_time_range_reversed_key(g, u, v) ==
    LET k == IF u >= v THEN <<u, v>> ELSE <<v, u>>
    IN  IF k \notin DOMAIN g.edges THEN None
        ELSE IF g.edges[k] = {} THEN None
        ELSE Some(<<Min(g.edges[k]), Max(g.edges[k])>>)

\* Mutant: the maximum is returned as the minimum too.
get_edge_time_range_max_twice(g, u, v) ==
    LET k == normalize_pair(u, v)
    IN  IF k \notin DOMAIN g.edges THEN None
        ELSE IF g.edges[k] = {} THEN None
        ELSE Some(<<Max(g.edges[k]), Max(g.edges[k])>>)

get_edge_time_range(g, u, v) ==
    LET k == normalize_pair(u, v)
    IN  IF k \notin DOMAIN g.edges THEN None
        ELSE IF g.edges[k] = {} THEN None
        ELSE Some(<<Min(g.edges[k]), Max(g.edges[k])>>)

\* Mutant: the bounds of the range are included.
has_incident_edge_in_range_inclusive(g, u, v, tmin, tmax) ==
    \E e \in DOMAIN g.edges :
        /\ ~((e[1] = u /\ e[2] = v) \/ (e[1] = v /\ e[2] = u))
        /\ (e[1] = u \/ e[1] = v \/ e[2] = u \/ e[2] = v)
        /\ \E t \in g.edges[e] : t >= tmin /\ t <= tmax

has_incident_edge_in_range(g, u, v, tmin, tmax) ==
    \E e \in DOMAIN g.edges :
        /\ ~((e[1] = u /\ e[2] = v) \/ (e[1] = v /\ e[2] = u))
        /\ (e[1] = u \/ e[1] = v \/ e[2] = u \/ e[2] = v)
        /\ \E t \in g.edges[e] : t > tmin /\ t < tmax

\* Mutant: edges with two labels are skipped.
WrappableEdges_three_labels(g) ==
    {e \in DOMAIN g.edges :
        /\ Cardinality(g.edges[e]) >= 3
        /\ Min(g.edges[e]) < Max(g.edges[e])
        /\ has_incident_edge_in_range(g, e[1], e[2], Min(g.edges[e]), Max(g.edges[e]))}

\* The edges the scan of find_wrappable_edge accepts.
WrappableEdges(g) ==
    {e \in DOMAIN g.edges :
        /\ Cardinality(g.edges[e]) >= 2
        /\ Min(g.edges[e]) < Max(g.edges[e])
        /\ has_incident_edge_in_range(g, e[1], e[2], Min(g.edges[e]), Max(g.edges[e]))}

\* The possible return values: the first accepted edge of some iteration order.
find_wrappable_edge(g) ==
    IF WrappableEdges(g) = {} THEN {None} ELSE {Some(e) : e \in WrappableEdges(g)}

\* Mutant: the second branch does not swap the common vertex and the neighbor.
incident_info_unswapped(e, u, v) ==
    IF e[1] = u \/ e[1] = v THEN Some(<<e[1], e[2]>>)
    ELSE IF e[2] = u \/ e[2] = v THEN Some(<<e[1], e[2]>>)
    ELSE None

\* Mutant: only the first component of a key is recognised as a common vertex.
incident_info_first_only(e, u, v) ==
    IF e[1] = u \/ e[1] = v THEN Some(<<e[1], e[2]>>)
    ELSE None

incident_info(e, u, v) ==
    IF e[1] = u \/ e[1] = v THEN Some(<<e[1], e[2]>>)
    ELSE IF e[2] = u \/ e[2] = v THEN Some(<<e[2], e[1]>>)
    ELSE None

\* The candidates vector of find_min_incident_in_range: (neighbor, common, t).
Candidates(g, u, v) ==
    LET k == normalize_pair(u, v)
        tmin == Min(g.edges[k])
        tmax == Max(g.edges[k])
    IN  UNION {
            IF incident_info(e, u, v) = None THEN {}
            ELSE {<<incident_info(e, u, v)[1][2], incident_info(e, u, v)[1][1], t>> :
                    t \in {t \in g.edges[e] : t > tmin /\ t < tmax}}
            : e \in DOMAIN g.edges \ {k}}

\* The possible return values: min_by_key returns the first candidate of
\* smallest t, and the candidates are in the map's iteration order.
find_min_incident_in_range(g, u, v) ==
    LET k == normalize_pair(u, v)
    IN  IF k \notin DOMAIN g.edges THEN {None}
        ELSE IF Cardinality(g.edges[k]) < 2 THEN {None}
        ELSE IF Min(g.edges[k]) >= Max(g.edges[k]) THEN {None}
        ELSE IF Candidates(g, u, v) = {} THEN {None}
        ELSE {Some(c) : c \in {c \in Candidates(g, u, v) :
                                 \A d \in Candidates(g, u, v) : c[3] <= d[3]}}

get_all_neighbors(g, vertex) ==
    {e[2] : e \in {e \in DOMAIN g.edges : e[1] = vertex}}
        \cup {e[1] : e \in {e \in DOMAIN g.edges : e[1] # vertex /\ e[2] = vertex}}

\* Mutant: the bounds of the range are included.
get_edge_timestamps_in_range_inclusive(g, u, v, tmin, tmax) ==
    LET k == normalize_pair(u, v)
    IN  IF k \in DOMAIN g.edges
        THEN {t \in g.edges[k] : t >= tmin /\ t <= tmax}
        ELSE {}

\* Mutant: every timestamp of the edge is returned, whatever the range.
get_edge_timestamps_in_range_all(g, u, v, tmin, tmax) ==
    LET k == normalize_pair(u, v)
    IN  IF k \in DOMAIN g.edges
        THEN g.edges[k]
        ELSE {}

get_edge_timestamps_in_range(g, u, v, tmin, tmax) ==
    LET k == normalize_pair(u, v)
    IN  IF k \in DOMAIN g.edges
        THEN {t \in g.edges[k] : t > tmin /\ t < tmax}
        ELSE {}

\* Mutant: the transferred timestamps are copied, not moved.
remove_each_none(g, a, b, ts) == g

\* Mutant: only the smallest of the transferred timestamps is removed.
remove_each_min_only(g, a, b, ts) ==
    IF ts = {} THEN g
    ELSE remove_edge_timestamp(g, a, b, Min(ts)).graph

\* Mutant: the removal loop stops after its first timestamp.
remove_each_first_only(g, a, b, ts) ==
    IF ts = {} THEN g
    ELSE remove_edge_timestamp(g, a, b, CHOOSE t \in ts : TRUE).graph

\* The two inner loops of transfer_labels_through_edge, one timestamp at a time.
RECURSIVE remove_each(_, _, _, _)
remove_each(g, a, b, ts) ==
    IF ts = {} THEN g
    ELSE LET t == CHOOSE t \in ts : TRUE
         IN  remove_each(remove_edge_timestamp(g, a, b, t).graph, a, b, ts \ {t})

\* Mutant: the timestamps replace the timestamps the destination edge had.
add_each_replace(g, a, b, ts) ==
    IF ts = {} THEN g
    ELSE LET k == normalize_pair(a, b)
         IN  [g EXCEPT !.edges =
                [x \in DOMAIN g.edges \cup {k} |-> IF x = k THEN ts ELSE g.edges[x]]]

\* Mutant: a transferred timestamp lands on a loop at the neighbour.
add_each_loop(g, a, b, ts) ==
    IF ts = {} THEN g
    ELSE add_edge(g, a, a, CHOOSE t \in ts : TRUE)

RECURSIVE add_each(_, _, _, _)
add_each(g, a, b, ts) ==
    IF ts = {} THEN g
    ELSE LET t == CHOOSE t \in ts : TRUE
         IN  add_each(add_edge(g, a, b, t), a, b, ts \ {t})

\* The neighbour loop, over the neighbours in the order ws.
RECURSIVE transfer_loop(_, _, _, _, _, _, _)
transfer_loop(g, u, v, ws, tmin, tmax, total_transferred) ==
    IF ws = << >> THEN [graph |-> g, ret |-> total_transferred]
    ELSE LET w == Head(ws)
             timestamps_to_transfer == get_edge_timestamps_in_range(g, v, w, tmin, tmax)
         IN  IF w = u
             THEN transfer_loop(g, u, v, Tail(ws), tmin, tmax, total_transferred)
             ELSE IF timestamps_to_transfer = {}
             THEN transfer_loop(g, u, v, Tail(ws), tmin, tmax, total_transferred)
             ELSE transfer_loop(
                      add_each(remove_each(g, v, w, timestamps_to_transfer),
                               w, u, timestamps_to_transfer),
                      u, v, Tail(ws), tmin, tmax,
                      total_transferred + Cardinality(timestamps_to_transfer))

Orderings(S) ==
    {s \in [1..Cardinality(S) -> S] : \A i, j \in 1..Cardinality(S) : i # j => s[i] # s[j]}

\* Mutant: a missing edge {u,v} is given the widest range instead of returning 0.
transfer_labels_through_edge_missing_edge(g, u, v) ==
    LET range == IF get_edge_time_range(g, u, v) = None
                 THEN <<0, MaxTime + 1>>
                 ELSE get_edge_time_range(g, u, v)[1]
    IN  {transfer_loop(g, u, v, ws, range[1], range[2], 0) :
           ws \in Orderings(get_all_neighbors(g, v))}

\* The possible outcomes [graph, ret]: one per order of the neighbour vector.
transfer_labels_through_edge(g, u, v) ==
    IF get_edge_time_range(g, u, v) = None THEN {[graph |-> g, ret |-> 0]}
    ELSE LET range == get_edge_time_range(g, u, v)[1]
         IN  {transfer_loop(g, u, v, ws, range[1], range[2], 0) :
                ws \in Orderings(get_all_neighbors(g, v))}

\* ------------------------------------------- to_state, in iteration order
\* The orders in which iter() can yield the elements of a HashSet or the keys
\* of a HashMap whose elements are S.
RECURSIVE IterationOrders(_)
IterationOrders(S) ==
    IF S = {} THEN {<< >>}
    ELSE UNION {{<<x>> \o rest : rest \in IterationOrders(S \ {x})} : x \in S}

\* times.sort_unstable() on the vector collected from the timestamp set.
RECURSIVE sort_unstable_vec(_)
sort_unstable_vec(times) ==
    IF times = << >> THEN << >>
    ELSE LET rest == sort_unstable_vec(Tail(times))
             i == Cardinality({j \in 1..Len(rest) : rest[j] < Head(times)})
         IN  SubSeq(rest, 1, i) \o <<Head(times)>> \o SubSeq(rest, i + 1, Len(rest))

\* Mutant: the edges are left in the order the map gave them.
sort_by_key_vec_unsorted(edge_labels) == edge_labels

\* edge_labels.sort_by_key(|(edge, _)| *edge) on the collected vector.
RECURSIVE sort_by_key_vec(_)
sort_by_key_vec(edge_labels) ==
    IF edge_labels = << >> THEN << >>
    ELSE LET rest == sort_by_key_vec(Tail(edge_labels))
             x == Head(edge_labels)
             i == Cardinality({j \in 1..Len(rest) :
                                 KeyLeq(rest[j][1], x[1]) /\ rest[j][1] # x[1]})
         IN  SubSeq(rest, 1, i) \o <<x>> \o SubSeq(rest, i + 1, Len(rest))

\* Mutant: only the smallest timestamp of an edge is kept.
TimesVecs_min_only(g, k) == {<<Min(g.edges[k])>>}

\* The sorted vectors the map closure can build for the edge k: one per
\* iteration order of its timestamp set.
TimesVecs(g, k) == {sort_unstable_vec(o) : o \in IterationOrders(g.edges[k])}

\* The vectors collect() can build when the map iterates its keys in the order ks.
RECURSIVE Entries(_, _)
Entries(g, ks) ==
    IF ks = << >> THEN {<< >>}
    ELSE {<< <<Head(ks), times>> >> \o rest :
            times \in TimesVecs(g, Head(ks)), rest \in Entries(g, Tail(ks))}

\* The possible return values of to_state: one per iteration order of the
\* edge map and of the timestamp sets.
ToStates(g) ==
    UNION {{sort_by_key_vec(e) : e \in Entries(g, ks)} :
                ks \in IterationOrders(DOMAIN g.edges)}

\* ------------------------------------------------------------ LabelMinimizer
VARIABLES
    graph,        \* the TemporalGraph: [vertices, edges]
    pc,           \* "idle" | "created" | "running" | "returned" | "panicked" | "called"
                  \*   | "recorded" | "second" | "again"
    caller,       \* who drives the minimizer: "none" | "LabelMinimizer" | "is_label_minimal"
    config,       \* MinimizationConfig: [max_iterations, track_statistics]
    stats,        \* MinimizationStats
    seen_states,  \* HashSet<GraphState>
    result,       \* Option<MinimizationResult> returned by run
    call,         \* Option<[op, args, ret]>: the last call of a graph method
    initial,      \* history: Option<the graph when the current call was entered>
    wraps,        \* history: wrap moves applied by the current run
    runs,         \* history: calls of run on the current minimizer
    last          \* history: Option<the locals of the last loop iteration>, or
                  \*   Option<[ret, before]> of the first of two transfers in a row

vars == <<graph, pc, caller, config, stats, seen_states, result, call,
          initial, wraps, runs, last>>

RECURSIVE CountLabels(_, _)
CountLabels(edges, K) ==
    IF K = {} THEN 0
    ELSE LET k == CHOOSE k \in K : TRUE
         IN  Cardinality(edges[k]) + CountLabels(edges, K \ {k})

TotalLabels(g) == CountLabels(g.edges, DOMAIN g.edges)

MinimizationConfig_default ==
    [max_iterations |-> Some(DefaultMaxIterations), track_statistics |-> FALSE]

Configs ==
    [max_iterations : {None} \cup {Some(n) : n \in 0..MaxCap},
     track_statistics : BOOLEAN]

MinimizationStats_new ==
    [iterations |-> 0, transfers_attempted |-> 0, transfers_successful |-> 0,
     useless_labels_found |-> 0, states_visited |-> 0]

\* Mutant: a cap of 0 means no cap.
should_terminate_iterations_zero_unlimited(cfg, st) ==
    IF cfg.max_iterations # None /\ cfg.max_iterations # Some(0)
    THEN st.iterations >= cfg.max_iterations[1]
    ELSE FALSE

\* Mutant: the pass whose number equals the cap still runs.
should_terminate_iterations_past_cap(cfg, st) ==
    IF cfg.max_iterations # None THEN st.iterations > cfg.max_iterations[1] ELSE FALSE

should_terminate_iterations(cfg, st) ==
    IF cfg.max_iterations # None THEN st.iterations >= cfg.max_iterations[1] ELSE FALSE

\* Mutant: leaving the loop without a move counts as minimal.
MinimizationResult_minimal_on_exit(cfg, st, is_minimal, reason) ==
    [is_minimal |-> reason # "MaxIterationsReached",
     stats |-> IF cfg.track_statistics THEN Some(st) ELSE None,
     termination_reason |-> reason]

\* Mutant: the statistics are returned whatever the configuration says.
MinimizationResult_stats_always(cfg, st, is_minimal, reason) ==
    [is_minimal |-> is_minimal,
     stats |-> Some(st),
     termination_reason |-> reason]

MinimizationResult(cfg, st, is_minimal, reason) ==
    [is_minimal |-> is_minimal,
     stats |-> IF cfg.track_statistics THEN Some(st) ELSE None,
     termination_reason |-> reason]

\* Mutant: no state counts as seen.
has_seen_current_state_never(g, seen) == FALSE

\* Mutant: every state counts as seen.
has_seen_current_state_always(g, seen) == TRUE

has_seen_current_state(g, seen) == to_state(g) \in seen

\* Mutant: the state is recorded without being counted.
record_current_state_uncounted(g, seen, st) ==
    [seen_states |-> seen \cup {to_state(g)}, stats |-> st]

\* record_current_state: the new [seen_states, stats].
record_current_state(g, seen, st) ==
    [seen_states |-> seen \cup {to_state(g)},
     stats |-> [st EXCEPT !.states_visited = @ + 1]]

\* Mutant: every attempted transfer is counted as successful.
transfer_labels_all_successful(g, cfg, st, u, v) ==
    {[graph |-> o.graph, ret |-> o.ret,
      stats |-> IF cfg.track_statistics
                THEN [st EXCEPT !.transfers_attempted = @ + 1,
                                !.transfers_successful = @ + 1]
                ELSE st] :
        o \in transfer_labels_through_edge(g, u, v)}

\* LabelMinimizer::transfer_labels: the possible [graph, ret, stats].
transfer_labels(g, cfg, st, u, v) ==
    {[graph |-> o.graph, ret |-> o.ret,
      stats |-> IF cfg.track_statistics
                THEN [st EXCEPT !.transfers_attempted = @ + 1,
                                !.transfers_successful = IF o.ret > 0 THEN @ + 1 ELSE @]
                ELSE st] :
        o \in transfer_labels_through_edge(g, u, v)}

\* One pass of the loop of run, from the minimizer m = [graph, config, stats,
\* seen_states]: the set of its possible outcomes.
loop_exit(g, cfg, st, seen, pcv, res, lastv, wrapped) ==
    [graph |-> g, stats |-> st, seen_states |-> seen, pc |-> pcv, result |-> res,
     last |-> lastv, wrapped |-> wrapped]

\* Mutant: the wrap move adds tmin at the common vertex x.
loop_wrap_common_endpoint(m, st, u, v, w, x, t, tr) ==
    LET other_endpoint == IF x = u THEN v ELSE u
        range == get_edge_time_range(tr.graph, u, v)
        locals == [u |-> u, v |-> v, w |-> w, x |-> x, t |-> t,
                   other_endpoint |-> other_endpoint, transferred |-> tr.ret,
                   before |-> m.graph, after_transfer |-> tr.graph,
                   range |-> range]
    IN  IF range = None
        THEN loop_exit(tr.graph, m.config, tr.stats, m.seen_states, "panicked", None,
                       Some(locals), FALSE)
        ELSE LET tmin == range[1][1]
                 g1 == add_edge(tr.graph, w, x, tmin)
                 rm == remove_edge_timestamp(g1, u, v, tmin)
                 rec == record_current_state(rm.graph, m.seen_states, tr.stats)
             IN  IF ~rm.ret
                 THEN loop_exit(rm.graph, m.config, tr.stats, m.seen_states, "returned",
                          Some(MinimizationResult(m.config, tr.stats, FALSE,
                                                  "UselessLabelFound")),
                          Some(locals), FALSE)
                 ELSE IF has_seen_current_state(rm.graph, m.seen_states)
                 THEN loop_exit(rm.graph, m.config, tr.stats, m.seen_states, "returned",
                          Some(MinimizationResult(m.config, tr.stats, TRUE,
                                                  "CycleDetected")),
                          Some(locals), TRUE)
                 ELSE loop_exit(rm.graph, m.config, rec.stats, rec.seen_states,
                          "running", None, Some(locals), TRUE)

loop_wrap(m, st, u, v, w, x, t, tr) ==
    LET other_endpoint == IF x = u THEN v ELSE u
        range == get_edge_time_range(tr.graph, u, v)
        locals == [u |-> u, v |-> v, w |-> w, x |-> x, t |-> t,
                   other_endpoint |-> other_endpoint, transferred |-> tr.ret,
                   before |-> m.graph, after_transfer |-> tr.graph,
                   range |-> range]
    IN  IF range = None
        THEN loop_exit(tr.graph, m.config, tr.stats, m.seen_states, "panicked", None,
                       Some(locals), FALSE)
        ELSE LET tmin == range[1][1]
                 g1 == add_edge(tr.graph, w, other_endpoint, tmin)
                 rm == remove_edge_timestamp(g1, u, v, tmin)
                 rec == record_current_state(rm.graph, m.seen_states, tr.stats)
             IN  IF ~rm.ret
                 THEN loop_exit(rm.graph, m.config, tr.stats, m.seen_states, "returned",
                          Some(MinimizationResult(m.config, tr.stats, FALSE,
                                                  "UselessLabelFound")),
                          Some(locals), FALSE)
                 ELSE IF has_seen_current_state(rm.graph, m.seen_states)
                 THEN loop_exit(rm.graph, m.config, tr.stats, m.seen_states, "returned",
                          Some(MinimizationResult(m.config, tr.stats, TRUE,
                                                  "CycleDetected")),
                          Some(locals), TRUE)
                 ELSE loop_exit(rm.graph, m.config, rec.stats, rec.seen_states,
                          "running", None, Some(locals), TRUE)

loop_move(m, st, u, v) ==
    UNION {
        IF fm = None
        THEN {loop_exit(m.graph, m.config, st, m.seen_states, "returned",
                  Some(MinimizationResult(m.config, st, FALSE, "UselessLabelFound")),
                  None, FALSE)}
        ELSE LET w == fm[1][1]
                 x == fm[1][2]
                 t == fm[1][3]
             IN  {loop_wrap(m, st, u, v, w, x, t, tr) :
                    tr \in transfer_labels(m.graph, m.config, st, x,
                                           IF x = u THEN v ELSE u)}
        : fm \in find_min_incident_in_range(m.graph, u, v)}

loop_body(m) ==
    LET st == [m.stats EXCEPT !.iterations = @ + 1]
    IN  IF should_terminate_iterations(m.config, st)
        THEN {loop_exit(m.graph, m.config, st, m.seen_states, "returned",
                  Some(MinimizationResult(m.config, st, FALSE, "MaxIterationsReached")),
                  None, FALSE)}
        ELSE UNION {
                IF fw = None
                THEN {loop_exit(m.graph, m.config, st, m.seen_states, "returned",
                          Some(MinimizationResult(m.config, st, FALSE,
                                                  "UselessLabelFound")),
                          None, FALSE)}
                ELSE loop_move(m, st, fw[1][1], fw[1][2])
                : fw \in find_wrappable_edge(m.graph)}

Minimizer == [graph |-> graph, config |-> config, stats |-> stats,
              seen_states |-> seen_states]

\* ------------------------------------------------------------------ actions
Init ==
    /\ graph = NewGraph
    /\ pc = "idle"
    /\ caller = "none"
    /\ config = MinimizationConfig_default
    /\ stats = MinimizationStats_new
    /\ seen_states = {}
    /\ result = None
    /\ call = None
    /\ initial = None
    /\ wraps = 0
    /\ runs = 0
    /\ last = None

\* The caller builds the graph while no minimizer borrows it.
add_vertex_call(id) ==
    /\ pc = "idle"
    /\ graph' = add_vertex(graph, id).graph
    /\ UNCHANGED <<pc, caller, config, stats, seen_states, result, call,
                   initial, wraps, runs, last>>

add_edge_call(u, v, time) ==
    /\ pc = "idle"
    /\ has_edge_at_time(graph, u, v, time) \/ TotalLabels(graph) < MaxLabels
    /\ graph' = add_edge(graph, u, v, time)
    /\ UNCHANGED <<pc, caller, config, stats, seen_states, result, call,
                   initial, wraps, runs, last>>

Build ==
    \/ \E id \in VertexId : add_vertex_call(id)
    \/ \E u, v \in VertexId, time \in TimeStep : add_edge_call(u, v, time)

\* LabelMinimizer::with_config(graph, cfg).
with_config(cfg) ==
    /\ pc = "idle"
    /\ pc' = "created"
    /\ caller' = "LabelMinimizer"
    /\ config' = cfg
    /\ stats' = MinimizationStats_new
    /\ seen_states' = {}
    /\ UNCHANGED <<graph, result, call, initial, wraps, runs, last>>

\* TemporalGraph::is_label_minimal, up to its call of run.
is_label_minimal ==
    /\ pc = "idle"
    /\ pc' = "created"
    /\ caller' = "is_label_minimal"
    /\ config' = MinimizationConfig_default
    /\ stats' = MinimizationStats_new
    /\ seen_states' = {}
    /\ call' = Some([op |-> "is_label_minimal", args |-> << >>, ret |-> None])
    /\ UNCHANGED <<graph, result, initial, wraps, runs, last>>

\* Mutant: the initial state is not recorded.
run_without_initial_state ==
    /\ \/ pc = "created"
       \/ pc = "returned" /\ caller = "LabelMinimizer" /\ runs < MaxRuns
    /\ pc' = "running"
    /\ stats' = [stats EXCEPT !.states_visited = 1]
    /\ result' = None
    /\ initial' = Some(graph)
    /\ wraps' = 0
    /\ runs' = runs + 1
    /\ last' = None
    /\ UNCHANGED <<graph, caller, config, call, seen_states>>

\* run, from its entry to the top of the loop. A minimizer made by
\* is_label_minimal runs once; one the caller owns may run again.
run ==
    /\ \/ pc = "created"
       \/ pc = "returned" /\ caller = "LabelMinimizer" /\ runs < MaxRuns
    /\ pc' = "running"
    /\ seen_states' = seen_states \cup {to_state(graph)}
    /\ stats' = [stats EXCEPT !.states_visited = 1]
    /\ result' = None
    /\ initial' = Some(graph)
    /\ wraps' = 0
    /\ runs' = runs + 1
    /\ last' = None
    /\ UNCHANGED <<graph, caller, config, call>>

\* One pass of the loop of run.
loop ==
    /\ pc = "running"
    /\ \E o \in loop_body(Minimizer) :
        /\ graph' = o.graph
        /\ stats' = o.stats
        /\ seen_states' = o.seen_states
        /\ pc' = o.pc
        /\ result' = o.result
        /\ last' = o.last
        /\ wraps' = IF o.wrapped THEN wraps + 1 ELSE wraps
    /\ UNCHANGED <<caller, config, call, initial, runs>>

\* is_label_minimal returns the is_minimal of the result of run.
is_label_minimal_return ==
    /\ pc = "returned"
    /\ caller = "is_label_minimal"
    /\ call # None /\ call[1].ret = None
    /\ call' = Some([call[1] EXCEPT !.ret = Some(result[1].is_minimal)])
    /\ UNCHANGED <<graph, pc, caller, config, stats, seen_states, result,
                   initial, wraps, runs, last>>

\* Calls of the public edge-query kernels on a graph no minimizer borrows.
find_wrappable_edge_call ==
    /\ pc = "idle"
    /\ pc' = "called"
    /\ \E r \in find_wrappable_edge(graph) :
        call' = Some([op |-> "find_wrappable_edge", args |-> << >>, ret |-> r])
    /\ initial' = Some(graph)
    /\ UNCHANGED <<graph, caller, config, stats, seen_states, result, wraps, runs, last>>

find_min_incident_in_range_call(u, v) ==
    /\ pc = "idle"
    /\ pc' = "called"
    /\ \E r \in find_min_incident_in_range(graph, u, v) :
        call' = Some([op |-> "find_min_incident_in_range", args |-> <<u, v>>, ret |-> r])
    /\ initial' = Some(graph)
    /\ UNCHANGED <<graph, caller, config, stats, seen_states, result, wraps, runs, last>>

transfer_labels_through_edge_call(u, v) ==
    /\ pc = "idle"
    /\ pc' = "called"
    /\ \E o \in transfer_labels_through_edge(graph, u, v) :
        /\ graph' = o.graph
        /\ call' = Some([op |-> "transfer_labels_through_edge", args |-> <<u, v>>,
                         ret |-> o.ret])
    /\ initial' = Some(graph)
    /\ UNCHANGED <<caller, config, stats, seen_states, result, wraps, runs, last>>

NextKernel ==
    \/ Build
    \/ find_wrappable_edge_call
    \/ \E u, v \in VertexId : find_min_incident_in_range_call(u, v)
    \/ \E u, v \in VertexId : transfer_labels_through_edge_call(u, v)

SpecKernel == Init /\ [][NextKernel]_vars

\* transfer_labels_through_edge called again, right after a call of it, with
\* the same arguments; last keeps the return value of the first call and the
\* graph it was made on.
transfer_labels_through_edge_again ==
    /\ pc = "called"
    /\ call # None /\ call[1].op = "transfer_labels_through_edge"
    /\ pc' = "again"
    /\ \E o \in transfer_labels_through_edge(graph, call[1].args[1], call[1].args[2]) :
        /\ graph' = o.graph
        /\ call' = Some([call[1] EXCEPT !.ret = o.ret])
    /\ initial' = Some(graph)
    /\ last' = Some([ret |-> call[1].ret, before |-> initial[1]])
    /\ UNCHANGED <<caller, config, stats, seen_states, result, wraps, runs>>

NextTwice ==
    \/ Build
    \/ \E u, v \in VertexId : transfer_labels_through_edge_call(u, v)
    \/ transfer_labels_through_edge_again

SpecTwice == Init /\ [][NextTwice]_vars

\* A call of add_edge on a graph no minimizer borrows, with the graph before
\* it kept for comparison; the inputs are graphs of at most MaxOpLabels labels.
add_edge_op(u, v, time) ==
    /\ pc = "idle"
    /\ TotalLabels(graph) <= MaxOpLabels
    /\ has_edge_at_time(graph, u, v, time) \/ TotalLabels(graph) < MaxLabels
    /\ pc' = "called"
    /\ graph' = add_edge(graph, u, v, time)
    /\ call' = Some([op |-> "add_edge", args |-> <<u, v, time>>, ret |-> None])
    /\ initial' = Some(graph)
    /\ UNCHANGED <<caller, config, stats, seen_states, result, wraps, runs, last>>

\* Calls of the removal methods on a graph no minimizer borrows; the inputs
\* are graphs of at most MaxOpLabels labels.
remove_edge_timestamp_call(u, v, time) ==
    /\ pc = "idle"
    /\ TotalLabels(graph) <= MaxOpLabels
    /\ pc' = "called"
    /\ graph' = remove_edge_timestamp(graph, u, v, time).graph
    /\ call' = Some([op |-> "remove_edge_timestamp", args |-> <<u, v, time>>,
                     ret |-> remove_edge_timestamp(graph, u, v, time).ret])
    /\ initial' = Some(graph)
    /\ UNCHANGED <<caller, config, stats, seen_states, result, wraps, runs, last>>

remove_edge_call(u, v) ==
    /\ pc = "idle"
    /\ TotalLabels(graph) <= MaxOpLabels
    /\ pc' = "called"
    /\ graph' = remove_edge(graph, u, v).graph
    /\ call' = Some([op |-> "remove_edge", args |-> <<u, v>>,
                     ret |-> remove_edge(graph, u, v).ret])
    /\ initial' = Some(graph)
    /\ UNCHANGED <<caller, config, stats, seen_states, result, wraps, runs, last>>

\* The caller is done with the value a call returned, or the minimizer goes
\* out of scope and its borrow of the graph ends: the graph is free again.
drop ==
    /\ pc \in {"called", "returned"}
    /\ pc' = "idle"
    /\ caller' = "none"
    /\ config' = MinimizationConfig_default
    /\ stats' = MinimizationStats_new
    /\ seen_states' = {}
    /\ result' = None
    /\ call' = None
    /\ initial' = None
    /\ wraps' = 0
    /\ runs' = 0
    /\ last' = None
    /\ UNCHANGED graph

\* Any sequence of graph method calls and minimizer runs on one graph.
NextOps ==
    \/ Build
    \/ \E u, v \in VertexId, time \in TimeStep : add_edge_op(u, v, time)
    \/ \E u, v \in VertexId, time \in TimeStep : remove_edge_timestamp_call(u, v, time)
    \/ \E u, v \in VertexId : remove_edge_call(u, v)
    \/ \E u, v \in VertexId : transfer_labels_through_edge_call(u, v)
    \/ is_label_minimal
    \/ run
    \/ loop
    \/ is_label_minimal_return
    \/ drop

SpecOps == Init /\ [][NextOps]_vars

\* A caller computes the state of a graph and keeps it in a set, then builds
\* a second graph and asks whether its state is in the set.
to_state_call ==
    /\ pc = "idle"
    /\ pc' = "recorded"
    /\ \E state \in ToStates(graph) :
        /\ seen_states' = seen_states \cup {state}
        /\ call' = Some([op |-> "to_state", args |-> << >>, ret |-> state])
    /\ initial' = Some(graph)
    /\ UNCHANGED <<graph, caller, config, stats, result, wraps, runs, last>>

\* TemporalGraph::new() for the second graph; the first one had at most
\* MaxStateLabels labels.
new_graph ==
    /\ pc = "recorded"
    /\ TotalLabels(graph) <= MaxStateLabels
    /\ pc' = "second"
    /\ graph' = NewGraph
    /\ UNCHANGED <<caller, config, stats, seen_states, result, call, initial,
                   wraps, runs, last>>

second_add_vertex(id) ==
    /\ pc = "second"
    /\ graph' = add_vertex(graph, id).graph
    /\ UNCHANGED <<pc, caller, config, stats, seen_states, result, call,
                   initial, wraps, runs, last>>

second_add_edge(u, v, time) ==
    /\ pc = "second"
    /\ has_edge_at_time(graph, u, v, time) \/ TotalLabels(graph) < MaxStateLabels
    /\ graph' = add_edge(graph, u, v, time)
    /\ UNCHANGED <<pc, caller, config, stats, seen_states, result, call,
                   initial, wraps, runs, last>>

\* has_seen_state on the second graph: args is the state it computed.
has_seen_state_call ==
    /\ pc = "second"
    /\ pc' = "called"
    /\ \E state \in ToStates(graph) :
        call' = Some([op |-> "has_seen_state", args |-> <<state>>,
                      ret |-> state \in seen_states])
    /\ UNCHANGED <<graph, caller, config, stats, seen_states, result, initial,
                   wraps, runs, last>>

NextState ==
    \/ Build
    \/ to_state_call
    \/ new_graph
    \/ \E id \in VertexId : second_add_vertex(id)
    \/ \E u, v \in VertexId, time \in TimeStep : second_add_edge(u, v, time)
    \/ has_seen_state_call

SpecState == Init /\ [][NextState]_vars

Next ==
    \/ Build
    \/ \E cfg \in Configs : with_config(cfg)
    \/ is_label_minimal
    \/ run
    \/ loop
    \/ is_label_minimal_return

Spec == Init /\ [][Next]_vars

\* MinimizationConfig::unlimited_iterations, with or without statistics, given
\* to with_config on a graph of at most MaxUnlimitedLabels labels.
unlimited_iterations(t) ==
    /\ TotalLabels(graph) <= MaxUnlimitedLabels
    /\ with_config([max_iterations |-> None, track_statistics |-> t])

\* Runs with unlimited iterations only. The loop of run is sequential code:
\* once a run has started, its next pass is taken.
NextUnlimited ==
    \/ Build
    \/ \E t \in BOOLEAN : unlimited_iterations(t)
    \/ run
    \/ loop

\* Weak fairness of loop, WF_vars(loop), with ENABLED <<loop>>_vars written
\* out as pc = "running": a running minimizer can always take a pass, and a
\* pass changes stats.iterations.
FairLoop == []<>(pc # "running") \/ []<><<loop>>_vars

SpecUnlimited == Init /\ [][NextUnlimited]_vars /\ FairLoop

\* ------------------------------------------------------------------ claims
Reasons == {"CycleDetected", "UselessLabelFound", "MaxIterationsReached"}

Returned == pc = "returned"

Reason == result[1].termination_reason

IsMinimal == result[1].is_minimal

\* An edge e of g is wrappable: at least two labels, and another stored edge
\* with exactly one vertex in common with e carries a label strictly between
\* the minimum and the maximum label of e.
Wrappable(g, e) ==
    /\ e \in DOMAIN g.edges
    /\ Cardinality(g.edges[e]) >= 2
    /\ \E f \in DOMAIN g.edges :
        /\ f # e
        /\ Cardinality({f[1], f[2]} \cap {e[1], e[2]}) = 1
        /\ \E t \in g.edges[f] : Min(g.edges[e]) < t /\ t < Max(g.edges[e])

HasWrappable(g) == \E e \in DOMAIN g.edges : Wrappable(g, e)

C2_CycleCheck ==
    /\ [](pc \in {"running", "returned"} => to_state(initial[1]) \in seen_states)
    /\ [][pc = "running" =>
            LET moved == wraps' = wraps + 1
                cur == to_state(graph')
                cycle == pc' = "returned"
                            /\ result'[1].termination_reason = "CycleDetected"
            IN  /\ cycle <=> (moved /\ cur \in seen_states)
                /\ (moved /\ cur \notin seen_states) =>
                        pc' = "running" /\ seen_states' = seen_states \cup {cur}
                /\ (moved /\ cur = to_state(initial[1])) =>
                        cycle /\ result'[1].is_minimal]_vars

C2_Witness ==
    /\ Returned
    /\ Reason = "CycleDetected" /\ IsMinimal
    /\ wraps >= 2
    /\ to_state(graph) = to_state(initial[1])

C4_ZeroCap ==
    /\ []((/\ Returned
           /\ config.max_iterations = Some(0)
           /\ edge_count(initial[1]) >= 1) =>
            /\ Reason = "MaxIterationsReached"
            /\ ~IsMinimal
            /\ wraps = 0
            /\ to_state(graph) = to_state(initial[1]))
    /\ [][(pc = "running" /\ config.max_iterations = Some(0)) =>
            (pc' = "returned" /\ graph' = graph)]_vars

C4_Witness ==
    /\ Returned
    /\ config.max_iterations = Some(0)
    /\ Reason = "MaxIterationsReached"
    /\ HasWrappable(initial[1])
    /\ to_state(graph) = to_state(initial[1])

\* C5: an unbounded run never returns MaxIterationsReached; a run with cap N
\* returns MaxIterationsReached exactly when the counter has reached N, and
\* applies at most N wrap moves.
C5_Cap ==
    /\ (Returned /\ config.max_iterations = None) => Reason # "MaxIterationsReached"
    /\ (Returned /\ config.max_iterations # None) =>
        (Reason = "MaxIterationsReached" <=> stats.iterations >= config.max_iterations[1])
    /\ (pc \in {"running", "returned"} /\ config.max_iterations # None) =>
        wraps <= config.max_iterations[1]

C5_Witness ==
    /\ Returned
    /\ config.max_iterations = Some(2)
    /\ Reason = "MaxIterationsReached"
    /\ stats.iterations = 2
    /\ wraps = 1

\* The verdicts a run can return from the minimizer m, over every choice of
\* the scans.
RECURSIVE Verdicts(_)
Verdicts(m) ==
    UNION {
        IF o.pc = "running"
        THEN Verdicts([graph |-> o.graph, config |-> m.config, stats |-> o.stats,
                       seen_states |-> o.seen_states])
        ELSE IF o.pc = "returned"
        THEN {<<o.result[1].termination_reason, o.result[1].is_minimal>>}
        ELSE {<<"panicked", FALSE>>}
        : o \in loop_body(m)}

\* A new minimizer on g at the top of the loop of its first run.
FirstRun(g, cfg) ==
    [graph |-> g, config |-> cfg,
     stats |-> [MinimizationStats_new EXCEPT !.states_visited = 1],
     seen_states |-> {to_state(g)}]

\* C6: the verdict of a first run is the only verdict any choice of the scans
\* can give for the same initial graph and configuration.
C6_SameVerdict ==
    (Returned /\ runs = 1) =>
        Verdicts(FirstRun(initial[1], config)) = {<<Reason, IsMinimal>>}

\* C7: run does not panic: in every pass that reaches the transfer, the edge
\* the scan returned is still stored after it and its range is Some.
C7_NoPanic ==
    /\ pc # "panicked"
    /\ last # None =>
        /\ last[1].range # None
        /\ normalize_pair(last[1].u, last[1].v) \in DOMAIN last[1].after_transfer.edges
        /\ last[1].after_transfer.edges[normalize_pair(last[1].u, last[1].v)] # {}

C7_Witness ==
    /\ last # None
    /\ last[1].transferred > 0
    /\ last[1].range # None
    /\ pc \in {"running", "returned"}

\* The call that has just returned is a call of op.
Called(op) == pc = "called" /\ call # None /\ call[1].op = op

\* The labels of g strictly between the minimum and the maximum label of the
\* stored edge e that lie on other stored edges with a vertex in common with e.
InRangeIncident(g, e) ==
    UNION {{t \in g.edges[f] : Min(g.edges[e]) < t /\ t < Max(g.edges[e])} :
            f \in {f \in DOMAIN g.edges :
                     f # e /\ {f[1], f[2]} \cap {e[1], e[2]} # {}}}

\* C8: find_wrappable_edge returns Some exactly when the graph has a
\* wrappable edge, the edge it returns is wrappable, and it returns None when
\* every edge has one label or no incident label lies strictly inside a range.
C8_FindWrappable ==
    Called("find_wrappable_edge") =>
        LET r == call[1].ret
        IN  /\ r # None <=> HasWrappable(graph)
            /\ r # None => Wrappable(graph, r[1])
            /\ (\A e \in DOMAIN graph.edges : Cardinality(graph.edges[e]) = 1) => r = None
            /\ (\A e \in DOMAIN graph.edges : InRangeIncident(graph, e) = {}) => r = None

C8_Witness ==
    /\ Called("find_wrappable_edge")
    /\ call[1].ret # None
    /\ Wrappable(graph, call[1].ret[1])
    /\ \E f \in DOMAIN graph.edges :
        Cardinality(graph.edges[f]) >= 2 /\ ~Wrappable(graph, f)

\* C9: on an edge {u,v} with at least two labels find_min_incident_in_range
\* returns (neighbor, common, t) with {neighbor, common} a stored edge other
\* than {u,v}, common an endpoint of {u,v}, neighbor not an endpoint of {u,v},
\* t a label of {neighbor, common} strictly inside the range of {u,v} and no
\* smaller label of an incident edge inside the range; it returns None exactly
\* when there is no such label, the edge is absent or has fewer than two labels.
C9_FindMinIncident ==
    Called("find_min_incident_in_range") =>
        LET u == call[1].args[1]
            v == call[1].args[2]
            k == normalize_pair(u, v)
            r == call[1].ret
            present == k \in DOMAIN graph.edges
        IN  /\ r = None <=>
                \/ ~present
                \/ Cardinality(graph.edges[k]) < 2
                \/ InRangeIncident(graph, k) = {}
            /\ r # None =>
                LET neighbor == r[1][1]
                    common == r[1][2]
                    t == r[1][3]
                    f == normalize_pair(neighbor, common)
                IN  /\ f \in DOMAIN graph.edges
                    /\ f # k
                    /\ common \in {u, v}
                    /\ neighbor \notin {u, v}
                    /\ t \in graph.edges[f]
                    /\ Min(graph.edges[k]) < t /\ t < Max(graph.edges[k])
                    /\ \A t2 \in InRangeIncident(graph, k) : t <= t2

\* C10: a label equal to the minimum or the maximum label of the anchor edge
\* is not in range: it does not make the edge wrappable, is not the label
\* find_min_incident_in_range returns, and stays on its edge through
\* transfer_labels_through_edge.
C10_StrictRange ==
    /\ Called("find_wrappable_edge") =>
        (call[1].ret # None => InRangeIncident(graph, call[1].ret[1]) # {})
    /\ Called("find_min_incident_in_range") =>
        (call[1].ret # None =>
            LET k == normalize_pair(call[1].args[1], call[1].args[2])
                t == call[1].ret[1][3]
            IN  t # Min(graph.edges[k]) /\ t # Max(graph.edges[k]))
    /\ Called("transfer_labels_through_edge") =>
        LET before == initial[1]
            k == normalize_pair(call[1].args[1], call[1].args[2])
        IN  k \in DOMAIN before.edges =>
                \A f \in DOMAIN before.edges :
                    \A t \in before.edges[f] :
                        (t <= Min(before.edges[k]) \/ t >= Max(before.edges[k])) =>
                            (f \in DOMAIN graph.edges /\ t \in graph.edges[f])

\* A transfer moved a label and left a boundary label on an edge at the pivot.
C10_Witness ==
    /\ Called("transfer_labels_through_edge")
    /\ call[1].ret > 0
    /\ LET before == initial[1]
           anchor == call[1].args[1]
           pivot == call[1].args[2]
           k == normalize_pair(anchor, pivot)
       IN  \E w \in VertexId \ {anchor, pivot} :
            /\ normalize_pair(pivot, w) \in DOMAIN before.edges
            /\ normalize_pair(pivot, w) \in DOMAIN graph.edges
            /\ \E t \in before.edges[normalize_pair(pivot, w)] :
                /\ t \in {Min(before.edges[k]), Max(before.edges[k])}
                /\ t \in graph.edges[normalize_pair(pivot, w)]

\* C9 as amended: as C9, but the neighbor is the other end of the stored
\* edge {neighbor, common}: it is an endpoint of {u,v} only when that edge is a
\* self-loop at common.
C9_FindMinIncident_Amended ==
    Called("find_min_incident_in_range") =>
        LET u == call[1].args[1]
            v == call[1].args[2]
            k == normalize_pair(u, v)
            r == call[1].ret
            present == k \in DOMAIN graph.edges
        IN  /\ r = None <=>
                \/ ~present
                \/ Cardinality(graph.edges[k]) < 2
                \/ InRangeIncident(graph, k) = {}
            /\ r # None =>
                LET neighbor == r[1][1]
                    common == r[1][2]
                    t == r[1][3]
                    f == normalize_pair(neighbor, common)
                IN  /\ f \in DOMAIN graph.edges
                    /\ f # k
                    /\ common \in {u, v}
                    /\ neighbor \notin {u, v} \/ neighbor = common
                    /\ t \in graph.edges[f]
                    /\ Min(graph.edges[k]) < t /\ t < Max(graph.edges[k])
                    /\ \A t2 \in InRangeIncident(graph, k) : t <= t2

\* The call chose the smaller of two in-range labels, on an edge to a vertex
\* outside {u,v} given as (v,u).
C9_Witness ==
    /\ Called("find_min_incident_in_range")
    /\ call[1].ret # None
    /\ call[1].args[1] > call[1].args[2]
    /\ call[1].ret[1][1] \notin {call[1].args[1], call[1].args[2]}
    /\ Cardinality(InRangeIncident(graph,
                       normalize_pair(call[1].args[1], call[1].args[2]))) >= 2

\* ------------------------------------------- transfer_labels_through_edge
\* The labels of edge {a,b} in g; none when the edge is not stored.
Labels(g, a, b) ==
    IF normalize_pair(a, b) \in DOMAIN g.edges THEN g.edges[normalize_pair(a, b)] ELSE {}

\* The vertices joined to p by a stored edge of g.
Neighbours(g, p) == {w \in VertexId : normalize_pair(p, w) \in DOMAIN g.edges}

\* The labels of {pivot,w} in g strictly inside the range of {anchor,pivot}.
InRange(g, anchor, pivot, w) ==
    {t \in Labels(g, pivot, w) :
        Min(Labels(g, anchor, pivot)) < t /\ t < Max(Labels(g, anchor, pivot))}

TransferCalled == Called("transfer_labels_through_edge")

Anchor == call[1].args[1]

Pivot == call[1].args[2]

\* What the transfer through {anchor,pivot} does to the edges at pivot, from
\* the graph before to the graph after, with return value ret.
TransferMoves(before, after, anchor, pivot, ret) ==
    LET W == Neighbours(before, pivot) \ {anchor}
    IN  /\ \A w \in W : \A t \in Labels(before, pivot, w) :
                IF t \in InRange(before, anchor, pivot, w)
                THEN t \notin Labels(after, pivot, w) /\ t \in Labels(after, w, anchor)
                ELSE t \in Labels(after, pivot, w)
        /\ \A w \in W :
                Labels(before, pivot, w) = InRange(before, anchor, pivot, w) =>
                    normalize_pair(pivot, w) \notin DOMAIN after.edges
        /\ ret = Cardinality({p \in W \X TimeStep :
                                p[2] \in InRange(before, anchor, pivot, p[1])})

\* C11: transfer_labels_through_edge(anchor, pivot) on a stored edge
\* {anchor,pivot}: for every neighbour w of pivot other than anchor, the labels
\* of {pivot,w} strictly inside the range are off {pivot,w} and on {w,anchor}
\* afterwards, the other labels of {pivot,w} stay, {pivot,w} is deleted when
\* all its labels were inside, and the return value counts the labels moved.
C11_Transfer ==
    (TransferCalled /\ Labels(initial[1], Anchor, Pivot) # {}) =>
        TransferMoves(initial[1], graph, Anchor, Pivot, call[1].ret)

\* C11 as amended: as C11 when anchor and pivot differ; when {anchor,pivot}
\* is a self-loop the labels are removed from and added back to the same edge
\* {pivot,w}, so every edge keeps its labels, and the return value still
\* counts the in-range labels.
C11_Transfer_Amended ==
    (TransferCalled /\ Labels(initial[1], Anchor, Pivot) # {}) =>
        IF Anchor # Pivot
        THEN TransferMoves(initial[1], graph, Anchor, Pivot, call[1].ret)
        ELSE /\ graph = initial[1]
             /\ call[1].ret =
                    Cardinality({p \in (Neighbours(initial[1], Pivot) \ {Anchor}) \X TimeStep :
                                    p[2] \in InRange(initial[1], Anchor, Pivot, p[1])})

\* A transfer moved a label off an edge that kept a label outside the range,
\* and emptied and deleted another edge at the pivot.
C11_Witness ==
    /\ TransferCalled
    /\ Anchor # Pivot
    /\ Labels(initial[1], Anchor, Pivot) # {}
    /\ call[1].ret >= 2
    /\ \E w \in Neighbours(initial[1], Pivot) \ {Anchor} :
        /\ InRange(initial[1], Anchor, Pivot, w) # {}
        /\ Labels(graph, Pivot, w) # {}
    /\ \E w \in Neighbours(initial[1], Pivot) \ {Anchor} :
        normalize_pair(Pivot, w) \notin DOMAIN graph.edges

\* C12: transfer_labels_through_edge(anchor, pivot) leaves the labels of the
\* edge {anchor,pivot} as they were before the call.
C12_AnchorEdgeUntouched ==
    TransferCalled => Labels(graph, Anchor, Pivot) = Labels(initial[1], Anchor, Pivot)

C14_MissingEdge ==
    (TransferCalled /\ normalize_pair(Anchor, Pivot) \notin DOMAIN initial[1].edges) =>
        /\ call[1].ret = 0
        /\ graph = initial[1]
        /\ graph.vertices = initial[1].vertices
        /\ \A a, b \in VertexId : Labels(graph, a, b) = Labels(initial[1], a, b)

\* The edge is missing while the pivot has edges to other vertices.
C14_Witness ==
    /\ TransferCalled
    /\ normalize_pair(Anchor, Pivot) \notin DOMAIN initial[1].edges
    /\ Anchor \in initial[1].vertices /\ Pivot \in initial[1].vertices
    /\ Cardinality(Neighbours(initial[1], Pivot)) >= 2
    /\ call[1].ret = 0

\* -------------------------------------------------- the moves of one pass
\* The last pass of the loop reached the transfer; its locals are in last.
Moved == pc \in {"running", "returned"} /\ last # None

\* The last pass of the loop applied its transfer and its wrap move.
Completed == Moved /\ ~(Returned /\ Reason = "UselessLabelFound")

\* C15: in a pass with wrappable edge {u,v}, candidate (w, x, t) and other
\* the endpoint of {u,v} that is not x, the transfer moves the labels strictly
\* inside the range of {u,v} from the edges between x and its neighbours other
\* than other onto the edges between those neighbours and other, and after
\* the transfer those labels are off the edges at x.
C15_TransferMove ==
    Moved =>
        LET l == last[1]
            tmin == Min(Labels(l.before, l.u, l.v))
            tmax == Max(Labels(l.before, l.u, l.v))
        IN  \A n \in Neighbours(l.before, l.x) \ {l.other_endpoint} :
                \A t \in Labels(l.before, l.x, n) :
                    (tmin < t /\ t < tmax) =>
                        /\ t \notin Labels(l.after_transfer, l.x, n)
                        /\ t \in Labels(l.after_transfer, n, l.other_endpoint)

\* C16: after a completed pass with wrappable edge {u,v}, candidate (w, x, t),
\* other the endpoint of {u,v} that is not x and tmin the minimum label of
\* {u,v} before the wrap, {other,w} carries tmin and {u,v} does not.
C16_WrapMove ==
    Completed =>
        LET l == last[1]
            tmin == Min(Labels(l.after_transfer, l.u, l.v))
        IN  /\ tmin \in Labels(graph, l.other_endpoint, l.w)
            /\ tmin \notin Labels(graph, l.u, l.v)

\* C16 as amended: as C16 when the candidate's edge {w,x} is not a self-loop,
\* and then the other labels of {other,w} and of {u,v} are kept; when w = x
\* the edge {other,w} is {u,v} itself, and the pass only removes tmin from it.
C16_WrapMove_Amended ==
    Completed =>
        LET l == last[1]
            tmin == Min(Labels(l.after_transfer, l.u, l.v))
        IN  /\ tmin \notin Labels(graph, l.u, l.v)
            /\ Labels(graph, l.u, l.v) = Labels(l.after_transfer, l.u, l.v) \ {tmin}
            /\ IF l.w # l.x
               THEN /\ tmin \in Labels(graph, l.other_endpoint, l.w)
                    /\ Labels(graph, l.other_endpoint, l.w) =
                            Labels(l.after_transfer, l.other_endpoint, l.w) \cup {tmin}
               ELSE normalize_pair(l.other_endpoint, l.w) = normalize_pair(l.u, l.v)

\* A completed pass whose wrap move created the edge {other,w}, after a
\* transfer that moved a label.
C16_Witness ==
    /\ Completed
    /\ last[1].w # last[1].x
    /\ last[1].transferred > 0
    /\ Labels(last[1].after_transfer, last[1].other_endpoint, last[1].w) = {}
    /\ Min(Labels(last[1].after_transfer, last[1].u, last[1].v))
            \in Labels(graph, last[1].other_endpoint, last[1].w)

\* ------------------------------------------------------ stored edges
\* C17: after any sequence of add_vertex, add_edge, remove_edge_timestamp,
\* remove_edge and transfer_labels_through_edge calls and minimizer runs, every
\* stored edge key has a timestamp: edge_times never returns an empty sequence
\* and edge_count counts the edges that have a label.
C17_NoEmptyEdge ==
    /\ \A k \in DOMAIN graph.edges : graph.edges[k] # {}
    /\ \A u, v \in VertexId : edge_times(graph, u, v) # Some(<< >>)
    /\ edge_count(graph) =
            Cardinality({k \in VertexId \X VertexId :
                            k[1] <= k[2] /\ \E t \in TimeStep : has_edge_at_time(graph, k[1], k[2], t)})

\* One edge lost its last label in a call and another edge is still stored.
C17_Witness ==
    /\ pc = "called"
    /\ call[1].op \in {"remove_edge_timestamp", "transfer_labels_through_edge"}
    /\ \E k \in DOMAIN initial[1].edges : k \notin DOMAIN graph.edges
    /\ edge_count(graph) >= 1
    /\ edge_count(graph) < edge_count(initial[1])

\* C20: remove_edge_timestamp(u,v,t) of the only label of {u,v} returns true
\* and deletes the edge: edge_count goes down by one and edge_times(u,v) is
\* None; when {u,v} has other labels it returns true, removes t alone and
\* keeps the edge with the other labels.
C20_AutoCleanup ==
    Called("remove_edge_timestamp") =>
        LET u == call[1].args[1]
            v == call[1].args[2]
            t == call[1].args[3]
            before == initial[1]
        IN  /\ Labels(before, u, v) = {t} =>
                /\ call[1].ret = TRUE
                /\ edge_count(graph) = edge_count(before) - 1
                /\ edge_times(graph, u, v) = None
                /\ normalize_pair(u, v) \notin DOMAIN graph.edges
            /\ (t \in Labels(before, u, v) /\ Labels(before, u, v) # {t}) =>
                /\ call[1].ret = TRUE
                /\ edge_count(graph) = edge_count(before)
                /\ Labels(graph, u, v) = Labels(before, u, v) \ {t}
                /\ edge_times(graph, u, v) = Some(sort_unstable(Labels(before, u, v) \ {t}))
            /\ \A a, b \in VertexId :
                normalize_pair(a, b) # normalize_pair(u, v) =>
                    Labels(graph, a, b) = Labels(before, a, b)

\* The only label of an edge given as (v,u) was removed while other edges stay.
C20_Witness ==
    /\ Called("remove_edge_timestamp")
    /\ call[1].args[1] > call[1].args[2]
    /\ Labels(initial[1], call[1].args[1], call[1].args[2]) = {call[1].args[3]}
    /\ call[1].ret = TRUE
    /\ edge_count(graph) >= 1
    /\ edge_times(graph, call[1].args[1], call[1].args[2]) = None

\* ------------------------------------------------------------ GraphState
\* state is the canonical form of g: the stored keys in ascending order, once
\* each, and with each key the labels of its edge in ascending order, once each.
IsCanonical(state, g) ==
    /\ Len(state) = Cardinality(DOMAIN g.edges)
    /\ \A i \in 1..Len(state) :
        /\ state[i][1] \in DOMAIN g.edges
        /\ Len(state[i][2]) = Cardinality(g.edges[state[i][1]])
        /\ {state[i][2][j] : j \in 1..Len(state[i][2])} = g.edges[state[i][1]]
        /\ \A j \in 1..(Len(state[i][2]) - 1) : state[i][2][j] < state[i][2][j + 1]
    /\ \A i \in 1..(Len(state) - 1) :
        \/ state[i][1][1] < state[i + 1][1][1]
        \/ state[i][1][1] = state[i + 1][1][1] /\ state[i][1][2] < state[i + 1][1][2]

\* C18: to_state does not depend on the order of the insertions or of the
\* endpoints: whatever order the map and the sets iterate in, it returns the
\* canonical form of the stored edges, and a second graph that holds the same
\* insertions, made in any order, has the state of the first.
C18_Canonical ==
    /\ pc = "recorded" => IsCanonical(call[1].ret, graph)
    /\ Called("has_seen_state") =>
        /\ IsCanonical(call[1].args[1], graph)
        /\ graph.edges = initial[1].edges => call[1].args[1] \in seen_states

\* Two graphs of the same two edges, built apart, with the same state.
C18_Witness ==
    /\ Called("has_seen_state")
    /\ Cardinality(DOMAIN graph.edges) = 2
    /\ graph.edges = initial[1].edges
    /\ IsCanonical(call[1].args[1], graph)
    /\ call[1].args[1] \in seen_states

\* C19: two graphs have equal states exactly when they store the same keys
\* with the same labels: has_seen_state on the second graph is true exactly
\* when its edges are those of the first, whatever their vertex sets are.
C19_StateEquality ==
    Called("has_seen_state") =>
        /\ call[1].ret <=> graph.edges = initial[1].edges
        /\ call[1].ret <=> seen_states = {call[1].args[1]}

\* Two graphs with the same edge and different isolated vertices.
C19_Witness ==
    /\ Called("has_seen_state")
    /\ call[1].ret = TRUE
    /\ graph.vertices # initial[1].vertices
    /\ DOMAIN graph.edges # {}

\* ------------------------------------------------------ edge operations
\* C21: add_edge(u,v,t) on a graph whose edge {u,v} carries t leaves the graph
\* as it was: the labels of {u,v}, the edge count and the canonical state.
C21_IdempotentInsert ==
    (Called("add_edge")
        /\ has_edge_at_time(initial[1], call[1].args[1], call[1].args[2], call[1].args[3])) =>
        /\ graph = initial[1]
        /\ Labels(graph, call[1].args[1], call[1].args[2])
                = Labels(initial[1], call[1].args[1], call[1].args[2])
        /\ edge_times(graph, call[1].args[1], call[1].args[2])
                = edge_times(initial[1], call[1].args[1], call[1].args[2])
        /\ edge_count(graph) = edge_count(initial[1])
        /\ ToStates(graph) = ToStates(initial[1])

\* The label was inserted again, endpoints given the other way round, on an
\* edge that has a second label.
C21_Witness ==
    /\ Called("add_edge")
    /\ call[1].args[1] > call[1].args[2]
    /\ has_edge_at_time(initial[1], call[1].args[1], call[1].args[2], call[1].args[3])
    /\ Cardinality(Labels(graph, call[1].args[1], call[1].args[2])) >= 2
    /\ edge_count(graph) >= 2

\* C22: remove_edge_timestamp(u,v,t) returns true exactly when {u,v} carried
\* t before the call; when the edge is missing or does not carry t it returns
\* false and leaves the graph as it was.
C22_RemoveAbsent ==
    Called("remove_edge_timestamp") =>
        LET u == call[1].args[1]
            v == call[1].args[2]
            t == call[1].args[3]
        IN  /\ call[1].ret <=> t \in Labels(initial[1], u, v)
            /\ ~call[1].ret => graph = initial[1]
            /\ t \notin Labels(initial[1], u, v) => (call[1].ret = FALSE /\ graph = initial[1])

\* The edge is stored with another label, and the call returned false.
C22_Witness ==
    /\ Called("remove_edge_timestamp")
    /\ Labels(initial[1], call[1].args[1], call[1].args[2]) # {}
    /\ call[1].args[3] \notin Labels(initial[1], call[1].args[1], call[1].args[2])
    /\ call[1].ret = FALSE
    /\ graph = initial[1]

\* C23: the edge operations do not depend on the order of the endpoints: the
\* queries has_edge_at_time, edge_times and get_edge_time_range give the same
\* answer for (u,v) and (v,u), and add_edge, remove_edge_timestamp and
\* remove_edge called with (u,v) leave the graph, and return the value, that
\* the call with (v,u) gives.
C23_Symmetric ==
    /\ \A u, v \in VertexId :
        /\ \A t \in TimeStep :
                has_edge_at_time(graph, u, v, t) = has_edge_at_time(graph, v, u, t)
        /\ edge_times(graph, u, v) = edge_times(graph, v, u)
        /\ get_edge_time_range(graph, u, v) = get_edge_time_range(graph, v, u)
    /\ Called("add_edge") =>
        graph = add_edge(initial[1], call[1].args[2], call[1].args[1], call[1].args[3])
    /\ Called("remove_edge_timestamp") =>
        LET swapped == remove_edge_timestamp(initial[1], call[1].args[2], call[1].args[1],
                                             call[1].args[3])
        IN  graph = swapped.graph /\ call[1].ret = swapped.ret
    /\ Called("remove_edge") =>
        LET swapped == remove_edge(initial[1], call[1].args[2], call[1].args[1])
        IN  graph = swapped.graph /\ call[1].ret = swapped.ret

\* An edge added as (u,v) with u < v was removed by a call with (v,u).
C23_Witness ==
    /\ Called("remove_edge")
    /\ call[1].args[1] > call[1].args[2]
    /\ call[1].ret = TRUE
    /\ edge_times(initial[1], call[1].args[2], call[1].args[1]) # None
    /\ edge_times(graph, call[1].args[2], call[1].args[1]) = None

\* C24: both endpoints of every stored edge are in the vertex set, and
\* add_edge(u,v,t) puts u and v into the vertex set.
C24_EndpointsAreVertices ==
    /\ \A k \in DOMAIN graph.edges : k[1] \in graph.vertices /\ k[2] \in graph.vertices
    /\ Called("add_edge") =>
        /\ call[1].args[1] \in graph.vertices
        /\ call[1].args[2] \in graph.vertices
        /\ graph.vertices = initial[1].vertices \cup {call[1].args[1], call[1].args[2]}

\* add_edge on two vertices the graph did not have, beside an older edge.
C24_Witness ==
    /\ Called("add_edge")
    /\ call[1].args[1] # call[1].args[2]
    /\ call[1].args[1] \notin initial[1].vertices
    /\ call[1].args[2] \notin initial[1].vertices
    /\ edge_count(initial[1]) >= 1
    /\ {call[1].args[1], call[1].args[2]} \subseteq graph.vertices

\* C27: remove_edge(u,v) returns true exactly when {u,v} was stored, leaves
\* no label of {u,v}, and leaves the other edges and the vertices as they were.
C27_RemoveEdge ==
    Called("remove_edge") =>
        LET u == call[1].args[1]
            v == call[1].args[2]
        IN  /\ call[1].ret <=> normalize_pair(u, v) \in DOMAIN initial[1].edges
            /\ normalize_pair(u, v) \notin DOMAIN graph.edges
            /\ Labels(graph, u, v) = {}
            /\ edge_times(graph, u, v) = None
            /\ graph.vertices = initial[1].vertices
            /\ \A a, b \in VertexId :
                normalize_pair(a, b) # normalize_pair(u, v) =>
                    Labels(graph, a, b) = Labels(initial[1], a, b)

\* An edge of two labels was removed and another edge stays.
C27_Witness ==
    /\ Called("remove_edge")
    /\ call[1].ret = TRUE
    /\ Cardinality(Labels(initial[1], call[1].args[1], call[1].args[2])) >= 2
    /\ edge_count(graph) >= 1
    /\ edge_count(graph) = edge_count(initial[1]) - 1

\* ------------------------------------------------------------ the seen-set
\* C25: during a run the seen-set only grows: it holds the initial state from
\* the start, a pass that goes on to the next adds exactly one state, which
\* was not in it, a pass that returns adds none, no state is removed, and
\* states_visited is the number of states in the seen-set throughout.
C25_SeenSetGrows ==
    /\ [](pc \in {"running", "returned"} =>
            /\ to_state(initial[1]) \in seen_states
            /\ stats.states_visited = Cardinality(seen_states))
    /\ [][pc = "running" =>
            /\ seen_states \subseteq seen_states'
            /\ pc' = "running" =>
                /\ to_state(graph') \notin seen_states
                /\ seen_states' = seen_states \cup {to_state(graph')}
            /\ pc' # "running" => seen_states' = seen_states]_vars

\* ------------------------------------------------------------ the statistics
\* C26: the result carries statistics exactly when track_statistics is set in
\* the configuration, and their useless_labels_found is 0 in every run,
\* whatever the termination reason.
C26_StatsPresence ==
    Returned =>
        /\ result[1].stats # None <=> config.track_statistics
        /\ result[1].stats # None => result[1].stats[1].useless_labels_found = 0

\* A tracked run that moved a label and then found no wrappable edge: it
\* reports UselessLabelFound with a count of 0.
C26_Witness ==
    /\ Returned
    /\ config.track_statistics
    /\ Reason = "UselessLabelFound"
    /\ wraps >= 1
    /\ result[1].stats # None
    /\ result[1].stats[1].useless_labels_found = 0
    /\ result[1].stats[1].iterations = wraps + 1

\* ------------------------------------------------- agreement of the kernels
\* C28: on every graph, when find_wrappable_edge returns Some((u,v)),
\* find_min_incident_in_range(u,v) returns Some on the same graph; so no pass
\* of a run leaves through the exit taken when a wrappable edge has no candidate.
C28_KernelsAgree ==
    /\ [](\A fw \in find_wrappable_edge(graph) :
            fw # None =>
                None \notin find_min_incident_in_range(graph, fw[1][1], fw[1][2]))
    /\ [][(/\ pc = "running"
           /\ pc' = "returned"
           /\ result'[1].termination_reason = "UselessLabelFound"
           /\ last' = None)
          => find_wrappable_edge(graph) = {None}]_vars

\* A run in progress, after a wrap move, on a graph that has a wrappable edge
\* whose candidate lies on an edge that meets it at the second component of
\* its key.
C28_Witness ==
    /\ pc = "running"
    /\ wraps >= 1
    /\ \E fw \in find_wrappable_edge(graph) :
        /\ fw # None
        /\ \A fm \in find_min_incident_in_range(graph, fw[1][1], fw[1][2]) :
            fm # None /\ fm[1][1] < fm[1][2]

\* ------------------------------------------------------ the removal of tmin
\* C29: in every pass that reaches the removal of tmin from edge {u,v}, the
\* removal succeeds (remove_edge_timestamp returns true), so the pass never
\* returns UselessLabelFound because of a failed removal.
C29_RemovalSucceeds ==
    Moved =>
        LET l == last[1]
            tmin == l.range[1][1]
            rm == remove_edge_timestamp(
                      add_edge(l.after_transfer, l.w, l.other_endpoint, tmin),
                      l.u, l.v, tmin)
        IN  /\ rm.ret
            /\ rm.graph = graph
            /\ tmin \notin Labels(graph, l.u, l.v)
            /\ ~(Returned /\ Reason = "UselessLabelFound")

\* A pass whose candidate lies on a self-loop, so that tmin is added to {u,v}
\* itself before it is removed, on an edge of three labels or more.
C29_Witness ==
    /\ Completed
    /\ last[1].w = last[1].x
    /\ Cardinality(Labels(last[1].before, last[1].u, last[1].v)) >= 3
    /\ last[1].range[1][1] \in Labels(last[1].after_transfer, last[1].u, last[1].v)
    /\ last[1].range[1][1] \notin Labels(graph, last[1].u, last[1].v)

\* ------------------------------------------ the range of the transfer edge
\* C30: transfer_labels_through_edge(anchor, pivot) changes neither the
\* minimum nor the maximum label of edge {anchor,pivot}; in every pass of the
\* minimizer the tmin read after the transfer is the tmin edge {u,v} had
\* before it.
C30_RangeKept ==
    /\ TransferCalled =>
            get_edge_time_range(graph, Anchor, Pivot)
                = get_edge_time_range(initial[1], Anchor, Pivot)
    /\ Moved =>
            /\ last[1].range = get_edge_time_range(last[1].before, last[1].u, last[1].v)
            /\ last[1].range
                 = get_edge_time_range(last[1].after_transfer, last[1].u, last[1].v)

\* A transfer that changed the labels of {anchor,pivot} itself: a self-loop at
\* pivot gave it labels, all inside its range.
C30_Witness ==
    /\ TransferCalled
    /\ call[1].ret > 0
    /\ Labels(initial[1], Anchor, Pivot) # {}
    /\ Labels(graph, Anchor, Pivot) # Labels(initial[1], Anchor, Pivot)
    /\ get_edge_time_range(graph, Anchor, Pivot)
         = get_edge_time_range(initial[1], Anchor, Pivot)

\* ------------------------------------------------------ the transfer counters
\* C31: with track_statistics on, each pass that reaches the transfer adds one
\* to transfers_attempted, and one to transfers_successful exactly when the
\* transfer moved a label, so that when the first run of a minimizer returns
\* transfers_attempted is the number of its passes that reached the transfer;
\* transfers_successful <= transfers_attempted <= iterations; with
\* track_statistics off both counters stay 0.
C31_TransferCounters ==
    /\ [](/\ stats.transfers_successful <= stats.transfers_attempted
          /\ stats.transfers_attempted <= stats.iterations
          /\ ~config.track_statistics =>
                stats.transfers_attempted = 0 /\ stats.transfers_successful = 0
          /\ (Returned /\ runs = 1 /\ config.track_statistics) =>
                stats.transfers_attempted = wraps)
    /\ [][(pc = "running" /\ config.track_statistics) =>
            /\ stats'.transfers_attempted
                 = stats.transfers_attempted + (IF last' # None THEN 1 ELSE 0)
            /\ stats'.transfers_successful
                 = stats.transfers_successful
                     + (IF last' # None /\ last'[1].transferred > 0 THEN 1 ELSE 0)]_vars

\* A tracked run that returned after two transfers, one of which moved a label.
C31_Witness ==
    /\ Returned
    /\ config.track_statistics
    /\ stats.transfers_attempted = 2
    /\ stats.transfers_successful = 1
    /\ stats.iterations = 3

\* ------------------------------------------------------------ the cap check
\* C32: the cap check precedes the search for a move: with max_iterations =
\* N >= 1 the N-th pass returns MaxIterationsReached without looking at the
\* graph, so a run that returns MaxIterationsReached has applied exactly N-1
\* wrap moves and has stats.iterations = N, and with N = 1 every run returns
\* MaxIterationsReached, also on a graph with no wrappable edge.
C32_CapCheck ==
    /\ []((/\ Returned
           /\ config.max_iterations # None
           /\ config.max_iterations[1] >= 1) =>
            /\ Reason = "MaxIterationsReached" =>
                /\ wraps = config.max_iterations[1] - 1
                /\ stats.iterations = config.max_iterations[1]
            /\ config.max_iterations[1] = 1 => Reason = "MaxIterationsReached")
    /\ [][(/\ pc = "running"
           /\ config.max_iterations # None
           /\ stats.iterations + 1 >= config.max_iterations[1]) =>
            /\ pc' = "returned"
            /\ result'[1].termination_reason = "MaxIterationsReached"
            /\ graph' = graph]_vars

\* ------------------------------------------------------------- termination
\* C33: with unlimited iterations every run returns, with CycleDetected or
\* UselessLabelFound: a running minimizer can always take its next pass, and a
\* pass that does not end the run adds to the seen-set a canonical state that
\* was not in it.
C33_Terminates ==
    /\ []((Returned /\ config.max_iterations = None) =>
            Reason \in {"CycleDetected", "UselessLabelFound"})
    /\ [][(pc = "running" /\ pc' = "running") =>
            /\ to_state(graph') \notin seen_states
            /\ seen_states' = seen_states \cup {to_state(graph')}]_vars
    /\ [](pc = "running" => loop_body(Minimizer) # {})
    /\ (pc = "running" /\ config.max_iterations = None) ~> Returned

\* An unlimited run that returned after three wrap moves.
C33_Witness ==
    /\ Returned
    /\ config.max_iterations = None
    /\ wraps >= 3
    /\ Reason \in {"CycleDetected", "UselessLabelFound"}
    /\ Cardinality(seen_states) >= 3

\* ------------------------------------------------------- labels over a run
\* The timestamp values on the edges of g.
LabelValues(g) == UNION {g.edges[e] : e \in DOMAIN g.edges}

\* The transfer through {anchor,pivot} on g moves a label onto an edge that
\* already carries it.
Collides(g, anchor, pivot) ==
    \E w \in Neighbours(g, pivot) \ {anchor} :
        InRange(g, anchor, pivot, w) \cap Labels(g, w, anchor) # {}

\* C34: over a run no timestamp value appears on an edge unless it was on an
\* edge of the initial graph, and the number of (edge, label) pairs never grows
\* from one pass to the next: it drops only when a moved label lands on an
\* edge that already carries it.
C34_LabelsConserved ==
    /\ pc \in {"running", "returned"} =>
        /\ LabelValues(graph) \subseteq LabelValues(initial[1])
        /\ TotalLabels(graph) <= TotalLabels(initial[1])
    /\ Moved =>
        LET l == last[1]
            tmin == l.range[1][1]
        IN  /\ TotalLabels(l.after_transfer) <= TotalLabels(l.before)
            /\ TotalLabels(graph) <= TotalLabels(l.after_transfer)
            /\ TotalLabels(l.after_transfer) < TotalLabels(l.before)
                 => Collides(l.before, l.x, l.other_endpoint)
            /\ TotalLabels(graph) < TotalLabels(l.after_transfer)
                 <=> tmin \in Labels(l.after_transfer, l.w, l.other_endpoint)

\* A pass whose transfer moved a label onto an edge that carried it: the graph
\* has one pair less than before.
C34_Witness ==
    /\ Moved
    /\ last[1].transferred > 0
    /\ Collides(last[1].before, last[1].x, last[1].other_endpoint)
    /\ TotalLabels(graph) < TotalLabels(last[1].before)
    /\ LabelValues(graph) \subseteq LabelValues(initial[1])

\* ------------------------------------------------------------ the vertex set
\* C35: run and transfer_labels_through_edge leave the vertex set as it was:
\* no vertex is added and none is removed, also when the moves create or
\* delete edges.
C35_VerticesKept ==
    /\ TransferCalled => graph.vertices = initial[1].vertices
    /\ pc \in {"running", "returned"} => graph.vertices = initial[1].vertices

\* A transfer that deleted one edge and created another.
C35_Witness ==
    /\ TransferCalled
    /\ DOMAIN graph.edges \ DOMAIN initial[1].edges # {}
    /\ DOMAIN initial[1].edges \ DOMAIN graph.edges # {}
    /\ graph.vertices = initial[1].vertices

\* ------------------------------------------------- iterations and states
\* C36: when run returns on a freshly created minimizer, for any termination
\* reason, stats.iterations equals stats.states_visited: every pass but the
\* last recorded one new state, and the initial state stands for the last.
C36_IterationsAreStates ==
    (Returned /\ runs = 1) =>
        /\ stats.iterations = stats.states_visited
        /\ stats.states_visited = Cardinality(seen_states)
        /\ stats.iterations = 1 + wraps - (IF Reason = "CycleDetected" THEN 1 ELSE 0)

\* A first run that reached its cap of 2 after one recorded pass.
C36_Witness ==
    /\ Returned
    /\ runs = 1
    /\ Reason = "MaxIterationsReached"
    /\ stats.iterations = 2
    /\ stats.states_visited = 2
    /\ Cardinality(seen_states) = 2

C38_WrappedEdgeKept ==
    Completed =>
        LET l == last[1]
        IN  /\ normalize_pair(l.u, l.v) \in DOMAIN graph.edges
            /\ Labels(graph, l.u, l.v) # {}
            /\ Max(Labels(graph, l.u, l.v)) = Max(Labels(l.before, l.u, l.v))
            /\ Min(Labels(graph, l.u, l.v)) > Min(Labels(l.before, l.u, l.v))

\* A pass on an edge of two labels: it is left with its maximum alone.
C38_Witness ==
    /\ Completed
    /\ Cardinality(Labels(last[1].before, last[1].u, last[1].v)) = 2
    /\ Labels(graph, last[1].u, last[1].v)
         = {Max(Labels(last[1].before, last[1].u, last[1].v))}

\* --------------------------------------------------------------- self-loops
NoSelfLoop(g) == \A e \in DOMAIN g.edges : e[1] # e[2]

\* C39: if the initial graph has no self-loop, no graph reached during the run
\* has one: the target {other, w} of the wrap move and the destinations
\* {w, anchor} of the transfer have two distinct endpoints.
C39_NoSelfLoop ==
    (pc \in {"running", "returned"} /\ NoSelfLoop(initial[1])) =>
        /\ NoSelfLoop(graph)
        /\ Moved =>
            /\ NoSelfLoop(last[1].before)
            /\ NoSelfLoop(last[1].after_transfer)
            /\ last[1].w # last[1].other_endpoint
            /\ last[1].w # last[1].x
            /\ last[1].x # last[1].other_endpoint

\* A run on a graph without self-loops, after two wrap moves, the last with a
\* transfer that moved a label.
C39_Witness ==
    /\ Moved
    /\ NoSelfLoop(initial[1])
    /\ DOMAIN initial[1].edges # {}
    /\ wraps >= 2
    /\ last[1].transferred > 0
    /\ NoSelfLoop(graph)

\* ---------------------------------------------------- the transfer, twice
\* C40: for anchor # pivot, transfer_labels_through_edge(anchor, pivot) called
\* a second time right after the first returns 0 and leaves the graph as the
\* first call left it.
C40_TransferIdempotent ==
    (pc = "again" /\ Anchor # Pivot) =>
        /\ call[1].ret = 0
        /\ graph = initial[1]

\* Two calls in a row, the first of which moved two labels or more and changed
\* the graph.
C40_Witness ==
    /\ pc = "again"
    /\ Anchor # Pivot
    /\ last[1].ret >= 2
    /\ last[1].before # initial[1]
    /\ call[1].ret = 0
    /\ graph = initial[1]

====
